---- MODULE Spec2Model ----
(***************************************************************************)
(* State-machine model of the pyobs-ascom modules: AscomTelescope,         *)
(* AscomFocuser and AscomDome (src/pyobs_ascom).  One module object is     *)
(* under test in a behaviour (variable `module`); several caller threads   *)
(* invoke its public operations concurrently.  Every access to shared      *)
(* state (a driver property or method, the lock, the abort event, an      *)
(* attribute of the object) is one atomic step of the calling thread.      *)
(*                                                                         *)
(* Units: right ascension and declination in degrees; the driver keeps     *)
(* RightAscension in hours.  All RA values are multiples of 15 and all     *)
(* declinations multiples of 60, for which ra / 15 and 1 / cos(dec) are    *)
(* exact.  Wall-clock time is in milliseconds.                             *)
(***************************************************************************)
EXTENDS Integers, FiniteSets, Sequences, TLC

\* ------------------------------------------------------------ bounds
\* operations started in one behaviour (telescope and dome; focuser)
MaxCalls == 3
MaxFocuserCalls == 2
\* waiting time tracked per call; beyond the 10000 ms of set_radec_offsets
MaxElapsedMs == 12000

\* the caller threads (thread A and thread B of the concurrency claims)
Threads == {1, 2}
NoThread == 0

\* ------------------------------------------------- program constants
InitAlt == 15
InitAz == 180
MoveTimeoutMs == 60000
OffsetTimeoutMs == 10000
PollSeconds == 1
HoursToDeg == 15

\* inputs the callers draw from
RaTargets == {30}
DecTargets == {0, 60}
DraValues == {0, 15}
DdecValues == {0, -60}
\* RA/Dec the mount can be at after a slew to Alt=15, Az=180 (depends on
\* sidereal time)
AltAzSky == {<<0, 0>>, <<45, 60>>}

Modules == {"telescope", "focuser", "dome"}

VARIABLES
    module,          \* which module object this behaviour exercises
    timed,           \* whether wall-clock time is tracked in this behaviour
    calls,           \* number of operations started so far
    lock,            \* _lock_moving / _lock_motion: holder, or NoThread
    abort_event,     \* _abort_move / _abort_motion: threading.Event flag
    motion_status,   \* the status last set by _change_motion_status
    offset_ra,       \* AscomTelescope._offset_ra
    offset_dec,      \* AscomTelescope._offset_dec
    Tracking,        \* driver: Telescope.Tracking
    Slewing,         \* driver: Telescope.Slewing
    RightAscension,  \* driver: Telescope.RightAscension (hours)
    Declination,     \* driver: Telescope.Declination (degrees)
    target,          \* driver: target of the slew last commanded
    focus_offset,    \* AscomFocuser._focus_offset
    Position,        \* driver: Focuser.Position (steps)
    FocMove,         \* driver: the Focuser.Move in progress
    Shutter,         \* driver: the last shutter command the dome received
    pc,              \* per thread: position in its current operation
    call,            \* per thread: operation and arguments
    loc,             \* per thread: local variables ra, dec
    result,          \* per thread: outcome of its last finished operation
    elapsed,         \* per thread: ms spent waiting in the current call
    stopped,         \* per thread: a step of stop_motion ran during the call
    aborted,         \* per thread: AbortSlew hit the slew the call waits for
    stop_returned,   \* per thread: a whole stop_motion ran during the call
    status_before,  \* per thread: the status set_radec_offsets found
    overstayed,      \* per thread: a poll of the call found the abort signal
                     \* set and stayed in the loop
    device,          \* whether self._device names a driver
    Connected,       \* driver: the Connected property
    connect_writes,  \* writes to device.Connected by the open or close
                     \* that runs or ran last
    com_count,       \* per thread: CoInitialize calls of open and close not
                     \* yet undone
    last_target,     \* the last absolute slew target and the offset calls
                     \* made since (sequential use)
    Azimuth,         \* driver: Telescope.Azimuth (degrees)
    Altitude,        \* driver: Telescope.Altitude (degrees)
    altaz            \* per thread: the value its last get_altaz returned

vars == <<module, timed, calls, lock, abort_event, motion_status, offset_ra,
          offset_dec, Tracking, Slewing, RightAscension, Declination, target,
          focus_offset, Position, FocMove, Shutter, pc, call, loc, result, elapsed, stopped, aborted, stop_returned,
          status_before, overstayed, device, Connected, connect_writes, com_count,
          last_target, Azimuth, Altitude, altaz>>

\* the connection to the driver and the threads' COM sessions
session == <<device, Connected, connect_writes, com_count>>

\* the mount's horizontal coordinates and what the sequential-use
\* specifications record; the horizontal coordinates are not followed
\* through slews
extra == <<last_target, Azimuth, Altitude, altaz>>

\* what no telescope step and no LockWithAbort step changes
env == <<module, timed, focus_offset, Position, FocMove, Shutter, session,
         extra>>
shared == <<lock, abort_event, motion_status, offset_ra, offset_dec>>
driver == <<Tracking, Slewing, RightAscension, Declination, target>>
hist == <<stopped, aborted, stop_returned, status_before, overstayed>>

\* ------------------------------------------------------- pure helpers

\* 1 / cos(radians(dec)) for dec a multiple of 60 degrees
\* (cos 0 = 1, cos 60 = 1/2, cos 120 = -1/2, cos 180 = -1)
SecDec(dec) ==
    LET d == dec % 360
    IN  CASE d = 0 -> 1
          [] d = 60 \/ d = 300 -> 2
          [] d = 120 \/ d = 240 -> -2
          [] OTHER -> -1

\* ra / 15. : degrees to the driver's hours
DegToHours(ra) == ra \div HoursToDeg

\* device.RightAscension * 15 : the driver's hours to degrees
HoursToDegrees(h) == h * HoursToDeg

\* a get_radec that returns the driver's position as it is
get_radec_raw == <<HoursToDegrees(RightAscension), Declination>>

\* AscomTelescope.get_radec: the driver's position minus the stored offset
get_radec ==
    LET ra_off == offset_ra * SecDec(Declination)
    IN  <<HoursToDegrees(RightAscension) - ra_off, Declination - offset_dec>>

\* AscomTelescope.get_radec_offsets
get_radec_offsets == <<offset_ra, offset_dec>>

\* the absolute target set_radec_offsets computes from the position read
\* (ra, dec) and the offsets it has just stored
OffsetTarget(ra, dec) ==
    <<ra + offset_ra * SecDec(dec), dec + offset_dec>>

\* ------------------------------------------------------------- Init
NoCall == [op |-> "none", a |-> 0, b |-> 0]
NoLoc == [ra |-> 0, dec |-> 0, focus |-> 0]
NoMove == [moving |-> FALSE, to |-> 0]
NoTarget == [kind |-> "none", ra |-> 0, dec |-> 0]
NoAbsTarget == [set |-> FALSE, ra |-> 0, dec |-> 0, offsets |-> 0]
NoAltAz == <<>>

InitCommon ==
    /\ calls = 0
    /\ lock = NoThread
    /\ abort_event = FALSE
    /\ motion_status = "IDLE"
    /\ offset_ra = 0
    /\ offset_dec = 0
    /\ Tracking = FALSE
    /\ Slewing = FALSE
    /\ RightAscension = 0
    /\ Declination = 0
    /\ target = NoTarget
    /\ focus_offset = 0
    /\ Position = 0
    /\ FocMove = NoMove
    /\ Shutter = "none"
    /\ pc = [t \in Threads |-> "idle"]
    /\ call = [t \in Threads |-> NoCall]
    /\ loc = [t \in Threads |-> NoLoc]
    /\ result = [t \in Threads |-> "none"]
    /\ elapsed = [t \in Threads |-> 0]
    /\ stopped = [t \in Threads |-> FALSE]
    /\ aborted = [t \in Threads |-> FALSE]
    /\ stop_returned = [t \in Threads |-> FALSE]
    /\ status_before = [t \in Threads |-> "none"]
    /\ overstayed = [t \in Threads |-> FALSE]
    /\ connect_writes = 0
    /\ com_count = [t \in Threads |-> 0]
    /\ last_target = NoAbsTarget
    /\ altaz = [t \in Threads |-> NoAltAz]

\* the module was opened: it has its device and the driver is connected
Opened ==
    /\ device = TRUE
    /\ Connected = TRUE

\* the mount rests at the horizon, pointing where azimuth reads 0
AtRest ==
    /\ Azimuth = 0
    /\ Altitude = 0

Init ==
    /\ module \in Modules
    /\ timed = FALSE
    /\ Opened
    /\ AtRest
    /\ InitCommon

\* ------------------------------------------------- starting a call
TelescopeCalls ==
    {[op |-> "init", a |-> 0, b |-> 0], [op |-> "park", a |-> 0, b |-> 0],
     [op |-> "stop_motion", a |-> 0, b |-> 0]}
    \cup {[op |-> "move_radec", a |-> ra, b |-> dec] :
            ra \in RaTargets, dec \in DecTargets}
    \cup {[op |-> "set_radec_offsets", a |-> dra, b |-> ddec] :
            dra \in DraValues, ddec \in DdecValues}

\* first step of an operation
Entry(op) ==
    CASE op = "stop_motion" -> "stop_abort"
      [] OTHER -> "enter"

\* first step of the body guarded by LockWithAbort
Body(op) ==
    CASE op = "init" -> "aa_reset"
      [] op = "park" -> "aa_reset"
      [] op = "move_radec" -> "rd_reset"
      [] op = "set_radec_offsets" -> "off_status"
      [] OTHER -> "sf_status"

\* the steps in which a call is inside its LockWithAbort block
InBody ==
    {"clear", "aa_reset", "aa_status", "aa_track", "aa_slew", "aa_poll",
     "aa_finish", "aa_final", "rd_reset", "rd_status", "rd_track",
     "rd_slew", "rd_poll", "rd_final", "off_status", "off_get",
     "off_store", "off_track", "off_slew", "off_poll", "off_final",
     "sf_status", "sf_move", "sf_poll", "sf_abort", "sf_final", "exit"}

TelescopeCall(t) ==
    /\ module = "telescope"
    /\ pc[t] = "idle"
    /\ calls < MaxCalls
    /\ \E c \in TelescopeCalls :
        /\ call' = [call EXCEPT ![t] = c]
        /\ pc' = [pc EXCEPT ![t] = Entry(c.op)]
    /\ calls' = calls + 1
    /\ result' = [result EXCEPT ![t] = "none"]
    /\ UNCHANGED <<env, shared, driver, loc, elapsed, hist>>

\* ---------------------------------------------------- LockWithAbort
\* pyobs.utils.threads.LockWithAbort(lock, event), as used by the modules:
\* __enter__ tries the lock without blocking; when it is taken it sets the
\* event and waits a bounded time for the lock, raising when it does not
\* get it; once it holds the lock it clears the event.  __exit__ releases
\* the lock.

\* the call of thread t is over: its frame is dropped
Return(t) ==
    /\ call' = [call EXCEPT ![t] = NoCall]
    /\ loc' = [loc EXCEPT ![t] = NoLoc]
    /\ elapsed' = [elapsed EXCEPT ![t] = 0]
    /\ stopped' = [stopped EXCEPT ![t] = FALSE]
    /\ aborted' = [aborted EXCEPT ![t] = FALSE]
    /\ stop_returned' = [stop_returned EXCEPT ![t] = FALSE]
    /\ status_before' = [status_before EXCEPT ![t] = "none"]
    /\ overstayed' = [overstayed EXCEPT ![t] = FALSE]

\* a lock that never refuses
CanAcquire_always == TRUE

\* whether a non-blocking acquire by a caller succeeds
CanAcquire == lock = NoThread

\* a LockWithAbort that waits for the lock without setting the event
LockEnter_quiet(t) ==
    /\ pc[t] = "enter"
    /\ IF CanAcquire
         THEN /\ lock' = t
              /\ pc' = [pc EXCEPT ![t] = "clear"]
         ELSE /\ pc' = [pc EXCEPT ![t] = "wait"]
              /\ UNCHANGED lock
    /\ UNCHANGED <<env, calls, abort_event, motion_status, offset_ra,
                   offset_dec, driver, call, loc, result, elapsed, hist>>

LockEnter(t) ==
    /\ pc[t] = "enter"
    /\ IF CanAcquire
         THEN /\ lock' = t
              /\ pc' = [pc EXCEPT ![t] = "clear"]
              /\ UNCHANGED abort_event
         ELSE /\ abort_event' = TRUE
              /\ pc' = [pc EXCEPT ![t] = "wait"]
              /\ UNCHANGED lock
    /\ UNCHANGED <<env, calls, motion_status, offset_ra, offset_dec,
                   driver, call, loc, result, elapsed, hist>>

LockWait(t) ==
    /\ pc[t] = "wait"
    /\ CanAcquire
    /\ lock' = t
    /\ pc' = [pc EXCEPT ![t] = "clear"]
    /\ UNCHANGED <<env, calls, abort_event, motion_status,
                   offset_ra, offset_dec, driver, call, loc, result, elapsed,
                   hist>>

LockTimeout(t) ==
    /\ pc[t] = "wait"
    /\ ~CanAcquire
    /\ pc' = [pc EXCEPT ![t] = "idle"]
    /\ result' = [result EXCEPT ![t] = "AcquireLockFailed"]
    /\ Return(t)
    /\ UNCHANGED <<env, calls, shared, driver>>

LockClear(t) ==
    /\ pc[t] = "clear"
    /\ abort_event' = FALSE
    /\ pc' = [pc EXCEPT ![t] = Body(call[t].op)]
    /\ UNCHANGED <<env, calls, lock, motion_status, offset_ra,
                   offset_dec, driver, call, loc, result, elapsed, hist>>

LockExit(t) ==
    /\ pc[t] = "exit"
    /\ lock' = IF lock = t THEN NoThread ELSE lock
    /\ pc' = [pc EXCEPT ![t] = "idle"]
    /\ result' = [result EXCEPT ![t] = "returned"]
    /\ Return(t)
    /\ UNCHANGED <<env, calls, abort_event, motion_status,
                   offset_ra, offset_dec, driver>>

\* ------------------------------------------------------ the driver
\* Telescope.SlewToAltAzAsync / SlewToCoordinatesAsync: the mount starts
\* moving to the target and reports Slewing until it arrives or is aborted
StartSlew(tgt) ==
    /\ Slewing' = TRUE
    /\ target' = tgt

\* the mount arrives at the target of the slew in progress
DriverArrive ==
    /\ module = "telescope"
    /\ Slewing
    /\ Slewing' = FALSE
    /\ IF target.kind = "radec"
         THEN /\ RightAscension' = target.ra
              /\ Declination' = target.dec
         ELSE \E p \in AltAzSky :
                /\ RightAscension' = DegToHours(p[1])
                /\ Declination' = p[2]
    /\ target' = NoTarget
    /\ UNCHANGED <<env, calls, shared, Tracking, pc, call, loc,
                   result, elapsed, hist>>

\* ------------------------------------------------------ _move_altaz
FinalState(op) == IF op = "park" THEN "PARKED" ELSE "POSITIONED"

\* a slew that keeps the stored offsets
ResetOffsets_skip == UNCHANGED <<offset_ra, offset_dec>>

\* self._offset_ra, self._offset_dec = 0, 0
ResetOffsets ==
    /\ offset_ra' = 0
    /\ offset_dec' = 0

\* self._change_motion_status(status)
ChangeMotionStatus(status) == motion_status' = status

Goto(t, p) == pc' = [pc EXCEPT ![t] = p]

MoveAltAzReset(t) ==
    /\ pc[t] = "aa_reset"
    /\ ResetOffsets
    /\ Goto(t, "aa_status")
    /\ UNCHANGED <<env, calls, lock, abort_event, motion_status,
                   driver, call, loc, result, elapsed, hist>>

MoveAltAzStatus(t) ==
    /\ pc[t] = "aa_status"
    /\ ChangeMotionStatus("SLEWING")
    /\ Goto(t, "aa_track")
    /\ UNCHANGED <<env, calls, lock, abort_event, offset_ra,
                   offset_dec, driver, call, loc, result, elapsed, hist>>

MoveAltAzTrack(t) ==
    /\ pc[t] = "aa_track"
    /\ Tracking' = FALSE
    /\ Goto(t, "aa_slew")
    /\ UNCHANGED <<env, calls, shared, Slewing, RightAscension,
                   Declination, target, call, loc, result, elapsed, hist>>

MoveAltAzSlew(t) ==
    /\ pc[t] = "aa_slew"
    /\ StartSlew([kind |-> "altaz", ra |-> InitAz, dec |-> InitAlt])
    /\ Goto(t, "aa_poll")
    /\ UNCHANGED <<env, calls, shared, Tracking, RightAscension,
                   Declination, call, loc, result, elapsed, hist>>

\* while device.Slewing: abort_event.wait(1)
\* wait(1) returns after one second, or at once when the event is set; the
\* loop condition reads only device.Slewing
PollLeaves == ~Slewing

Waited(t) ==
    IF timed /\ ~abort_event
      THEN [elapsed EXCEPT ![t] = @ + PollSeconds * 1000]
      ELSE elapsed

Poll(t, here, next) ==
    /\ pc[t] = here
    /\ IF PollLeaves
         THEN /\ Goto(t, next)
              /\ UNCHANGED <<elapsed, overstayed>>
         ELSE /\ elapsed[t] < MaxElapsedMs
              /\ elapsed' = Waited(t)
              /\ overstayed' = [overstayed EXCEPT ![t] = @ \/ abort_event]
              /\ UNCHANGED pc
    /\ UNCHANGED <<env, calls, shared, driver, call, loc, result,
                   stopped, aborted, stop_returned, status_before>>

MoveAltAzPoll(t) == Poll(t, "aa_poll", "aa_finish")

MoveAltAzFinish(t) ==
    /\ pc[t] = "aa_finish"
    /\ Tracking' = FALSE
    /\ Goto(t, "aa_final")
    /\ UNCHANGED <<env, calls, shared, Slewing, RightAscension,
                   Declination, target, call, loc, result, elapsed, hist>>

MoveAltAzFinal(t) ==
    /\ pc[t] = "aa_final"
    /\ ChangeMotionStatus(FinalState(call[t].op))
    /\ Goto(t, "exit")
    /\ UNCHANGED <<env, calls, lock, abort_event, offset_ra,
                   offset_dec, driver, call, loc, result, elapsed, hist>>

\* ------------------------------------------------------ _move_radec
MoveRadecReset(t) ==
    /\ pc[t] = "rd_reset"
    /\ ResetOffsets
    /\ Goto(t, "rd_status")
    /\ UNCHANGED <<env, calls, lock, abort_event, motion_status,
                   driver, call, loc, result, elapsed, hist>>

MoveRadecStatus(t) ==
    /\ pc[t] = "rd_status"
    /\ ChangeMotionStatus("SLEWING")
    /\ Goto(t, "rd_track")
    /\ UNCHANGED <<env, calls, lock, abort_event, offset_ra,
                   offset_dec, driver, call, loc, result, elapsed, hist>>

MoveRadecTrack(t) ==
    /\ pc[t] = "rd_track"
    /\ Tracking' = TRUE
    /\ Goto(t, "rd_slew")
    /\ UNCHANGED <<env, calls, shared, Slewing, RightAscension,
                   Declination, target, call, loc, result, elapsed, hist>>

MoveRadecSlew(t) ==
    /\ pc[t] = "rd_slew"
    /\ StartSlew([kind |-> "radec", ra |-> DegToHours(call[t].a),
                  dec |-> call[t].b])
    /\ Goto(t, "rd_poll")
    /\ UNCHANGED <<env, calls, shared, Tracking, RightAscension,
                   Declination, call, loc, result, elapsed, hist>>

MoveRadecPoll(t) == Poll(t, "rd_poll", "rd_final")

MoveRadecFinal(t) ==
    /\ pc[t] = "rd_final"
    /\ ChangeMotionStatus("TRACKING")
    /\ Goto(t, "exit")
    /\ UNCHANGED <<env, calls, lock, abort_event, offset_ra,
                   offset_dec, driver, call, loc, result, elapsed, hist>>

\* ------------------------------------------------ set_radec_offsets
SetOffsetsStatus(t) ==
    /\ pc[t] = "off_status"
    /\ ChangeMotionStatus("SLEWING")
    /\ Goto(t, "off_get")
    /\ status_before' = [status_before EXCEPT ![t] = motion_status]
    /\ UNCHANGED <<env, calls, lock, abort_event, offset_ra,
                   offset_dec, driver, call, loc, result, elapsed, stopped,
                   aborted, stop_returned, overstayed>>

\* ra, dec = self.get_radec()
SetOffsetsGet(t) ==
    /\ pc[t] = "off_get"
    /\ loc' = [loc EXCEPT ![t] = [ra |-> get_radec[1], dec |-> get_radec[2],
                                 focus |-> 0]]
    /\ Goto(t, "off_store")
    /\ UNCHANGED <<env, calls, shared, driver, call, result,
                   elapsed, hist>>

\* a set_radec_offsets that clears the offsets as an absolute slew does
StoreOffsets_reset(dra, ddec) ==
    /\ offset_ra' = 0
    /\ offset_dec' = 0

\* a set_radec_offsets that adds the new offsets to the stored ones
StoreOffsets_add(dra, ddec) ==
    /\ offset_ra' = offset_ra + dra
    /\ offset_dec' = offset_dec + ddec

\* self._offset_ra = dra; self._offset_dec = ddec
StoreOffsets(dra, ddec) ==
    /\ offset_ra' = dra
    /\ offset_dec' = ddec

SetOffsetsStore(t) ==
    /\ pc[t] = "off_store"
    /\ StoreOffsets(call[t].a, call[t].b)
    /\ Goto(t, "off_track")
    /\ UNCHANGED <<env, calls, lock, abort_event, motion_status,
                   driver, call, loc, result, elapsed, hist>>

SetOffsetsTrack(t) ==
    /\ pc[t] = "off_track"
    /\ Tracking' = TRUE
    /\ Goto(t, "off_slew")
    /\ UNCHANGED <<env, calls, shared, Slewing, RightAscension,
                   Declination, target, call, loc, result, elapsed, hist>>

\* ra += offset_ra / cos(dec); dec += offset_dec;
\* device.SlewToCoordinatesAsync(ra / 15., dec)
SetOffsetsSlew(t) ==
    /\ pc[t] = "off_slew"
    /\ LET tgt == OffsetTarget(loc[t].ra, loc[t].dec)
       IN  StartSlew([kind |-> "radec", ra |-> DegToHours(tgt[1]),
                      dec |-> tgt[2]])
    /\ Goto(t, "off_poll")
    /\ UNCHANGED <<env, calls, shared, Tracking, RightAscension,
                   Declination, call, loc, result, elapsed, hist>>

SetOffsetsPoll(t) == Poll(t, "off_poll", "off_final")

SetOffsetsFinal(t) ==
    /\ pc[t] = "off_final"
    /\ ChangeMotionStatus("TRACKING")
    /\ Goto(t, "exit")
    /\ UNCHANGED <<env, calls, lock, abort_event, offset_ra,
                   offset_dec, driver, call, loc, result, elapsed, hist>>

\* ------------------------------------------------------ stop_motion
\* the motion call in flight: the one inside its LockWithAbort block
InFlight(u) == lock = u /\ pc[u] \in InBody

PollSteps == {"aa_poll", "rd_poll", "off_poll"}

\* device.AbortSlew()
StopAbortSlew(t) ==
    /\ pc[t] = "stop_abort"
    /\ Slewing' = FALSE
    /\ target' = NoTarget
    /\ Goto(t, "stop_track")
    /\ stopped' = [u \in Threads |-> stopped[u] \/ InFlight(u)]
    /\ aborted' = [u \in Threads |->
                     aborted[u] \/ (pc[u] \in PollSteps /\ Slewing)]
    /\ UNCHANGED <<env, calls, shared, Tracking, RightAscension,
                   Declination, call, loc, result, elapsed, stop_returned,
                   status_before, overstayed>>

\* device.Tracking = False
StopTrackingOff(t) ==
    /\ pc[t] = "stop_track"
    /\ Tracking' = FALSE
    /\ Goto(t, "idle")
    /\ result' = [result EXCEPT ![t] = "returned"]
    /\ stopped' = [u \in Threads |-> stopped[u] \/ InFlight(u)]
    /\ stop_returned' = [u \in Threads |->
                           stop_returned[u] \/ (InFlight(u) /\ stopped[u])]
    /\ call' = [call EXCEPT ![t] = NoCall]
    /\ UNCHANGED <<env, calls, shared, Slewing, RightAscension,
                   Declination, target, loc, elapsed, aborted,
                   status_before, overstayed>>

\* ====================================================== AscomFocuser
\* Focus values are counted in half driver steps (1 / (2 * StepSize * 1000)
\* mm), so that int(focus * StepSize * 1000.) truncates.
MoveTolerance == 10
FocusValues == {40, 81}
FocusOffsets == {0, 30}

\* int(focus * device.StepSize * 1000.): truncation towards zero
FocusToSteps(focus) ==
    IF focus >= 0 THEN focus \div 2 ELSE -((-focus) \div 2)

\* device.Position / device.StepSize / 1000.
StepsToFocus(p) == 2 * p

\* AscomFocuser.get_focus
get_focus == StepsToFocus(Position) - focus_offset

\* AscomFocuser.get_focus_offset
get_focus_offset == focus_offset

Abs(x) == IF x < 0 THEN -x ELSE x

FocuserCalls ==
    {[op |-> "stop_motion", a |-> 0, b |-> 0]}
    \cup {[op |-> "set_focus", a |-> f, b |-> 0] : f \in FocusValues}
    \cup {[op |-> "set_focus_offset", a |-> o, b |-> 0] : o \in FocusOffsets}

FocuserEntry(op) ==
    CASE op = "stop_motion" -> "halt"
      [] op = "set_focus" -> "sfc_arg"
      [] OTHER -> "so_get"

foc_frame == <<module, timed, calls, offset_ra, offset_dec, driver, Shutter,
              session, extra>>

FocuserCall(t) ==
    /\ module = "focuser"
    /\ pc[t] = "idle"
    /\ calls < MaxFocuserCalls
    /\ \E c \in FocuserCalls :
        /\ call' = [call EXCEPT ![t] = c]
        /\ pc' = [pc EXCEPT ![t] = FocuserEntry(c.op)]
    /\ calls' = calls + 1
    /\ result' = [result EXCEPT ![t] = "none"]
    /\ UNCHANGED <<env, shared, driver, loc, elapsed, hist>>

\* a set_focus that leaves the stored offset out
SetFocusArg_plain(t) ==
    /\ pc[t] = "sfc_arg"
    /\ loc' = [loc EXCEPT ![t].focus = call[t].a]
    /\ Goto(t, "enter")
    /\ UNCHANGED <<foc_frame, lock, abort_event, motion_status, focus_offset,
                   Position, FocMove, call, result, elapsed, hist>>

\* set_focus: self._set_focus(focus + self._focus_offset)
SetFocusArg(t) ==
    /\ pc[t] = "sfc_arg"
    /\ loc' = [loc EXCEPT ![t].focus = call[t].a + focus_offset]
    /\ Goto(t, "enter")
    /\ UNCHANGED <<foc_frame, lock, abort_event, motion_status, focus_offset,
                   Position, FocMove, call, result, elapsed, hist>>

\* set_focus_offset: focus = self.get_focus()
SetFocusOffsetGet(t) ==
    /\ pc[t] = "so_get"
    /\ loc' = [loc EXCEPT ![t].focus = get_focus]
    /\ Goto(t, "so_store")
    /\ UNCHANGED <<foc_frame, lock, abort_event, motion_status, focus_offset,
                   Position, FocMove, call, result, elapsed, hist>>

\* set_focus_offset: self._focus_offset = offset
SetFocusOffsetStore(t) ==
    /\ pc[t] = "so_store"
    /\ focus_offset' = call[t].a
    /\ Goto(t, "so_arg")
    /\ UNCHANGED <<foc_frame, lock, abort_event, motion_status, Position,
                   FocMove, call, loc, result, elapsed, hist>>

\* set_focus_offset: self._set_focus(focus + self._focus_offset)
SetFocusOffsetArg(t) ==
    /\ pc[t] = "so_arg"
    /\ loc' = [loc EXCEPT ![t].focus = @ + focus_offset]
    /\ Goto(t, "enter")
    /\ UNCHANGED <<foc_frame, lock, abort_event, motion_status, focus_offset,
                   Position, FocMove, call, result, elapsed, hist>>

\* _set_focus: self._change_motion_status(IMotion.Status.SLEWING, ...)
SetFocusStatus(t) ==
    /\ pc[t] = "sf_status"
    /\ ChangeMotionStatus("SLEWING")
    /\ Goto(t, "sf_move")
    /\ UNCHANGED <<foc_frame, lock, abort_event, focus_offset, Position,
                   FocMove, call, loc, result, elapsed, hist>>

\* _set_focus: foc = int(focus * device.StepSize * 1000.); device.Move(foc)
SetFocusMove(t) ==
    /\ pc[t] = "sf_move"
    /\ FocMove' = [moving |-> TRUE, to |-> FocusToSteps(loc[t].focus)]
    /\ Goto(t, "sf_poll")
    /\ UNCHANGED <<foc_frame, shared, focus_offset, Position, call, loc,
                   result, elapsed, hist>>

\* _set_focus: while abs(device.Position - foc) > 10
FocusReached(foc) == Abs(Position - foc) <= MoveTolerance

SetFocusPoll(t) ==
    /\ pc[t] = "sf_poll"
    /\ IF FocusReached(FocusToSteps(loc[t].focus))
         THEN Goto(t, "sf_final")
         ELSE Goto(t, "sf_abort")
    /\ UNCHANGED <<foc_frame, shared, focus_offset, Position, FocMove, call,
                   loc, result, elapsed, hist>>

\* _set_focus: if self._abort_motion.is_set(): return; time.sleep(0.1)
SetFocusAbort(t) ==
    /\ pc[t] = "sf_abort"
    /\ IF abort_event
         THEN Goto(t, "exit")
         ELSE Goto(t, "sf_poll")
    /\ UNCHANGED <<foc_frame, shared, focus_offset, Position, FocMove, call,
                   loc, result, elapsed, hist>>

\* _set_focus: self._change_motion_status(IMotion.Status.POSITIONED, ...)
SetFocusFinal(t) ==
    /\ pc[t] = "sf_final"
    /\ ChangeMotionStatus("POSITIONED")
    /\ Goto(t, "exit")
    /\ UNCHANGED <<foc_frame, lock, abort_event, focus_offset, Position,
                   FocMove, call, loc, result, elapsed, hist>>

\* AscomFocuser.stop_motion: return device.Halt()
FocuserHalt(t) ==
    /\ pc[t] = "halt"
    /\ FocMove' = NoMove
    /\ Goto(t, "idle")
    /\ result' = [result EXCEPT ![t] = "returned"]
    /\ call' = [call EXCEPT ![t] = NoCall]
    /\ stopped' = [u \in Threads |-> stopped[u] \/ InFlight(u)]
    /\ aborted' = [u \in Threads |->
                     aborted[u] \/ (pc[u] \in {"sf_poll", "sf_abort"}
                                    /\ FocMove.moving)]
    /\ stop_returned' = [u \in Threads |-> stop_returned[u] \/ InFlight(u)]
    /\ UNCHANGED <<foc_frame, shared, focus_offset, Position, loc, elapsed,
                   status_before, overstayed>>

\* the driver moves the focuser: first to within the tolerance of the
\* target, then onto it
FocuserAdvance ==
    /\ module = "focuser"
    /\ FocMove.moving
    /\ LET to == FocMove.to
           near == IF Position < to - MoveTolerance THEN to - MoveTolerance
                   ELSE IF Position > to + MoveTolerance
                          THEN to + MoveTolerance
                          ELSE to
       IN  /\ Position' = near
           /\ FocMove' = IF near = to THEN NoMove ELSE FocMove
    /\ UNCHANGED <<foc_frame, shared, focus_offset, pc, call, loc, result,
                   elapsed, hist>>

FocuserStep(t) ==
    \/ FocuserCall(t)
    \/ SetFocusArg(t)
    \/ SetFocusOffsetGet(t)
    \/ SetFocusOffsetStore(t)
    \/ SetFocusOffsetArg(t)
    \/ SetFocusStatus(t)
    \/ SetFocusMove(t)
    \/ SetFocusPoll(t)
    \/ SetFocusAbort(t)
    \/ SetFocusFinal(t)
    \/ FocuserHalt(t)

\* ========================================================= AscomDome
DomeCalls == {"open_roof", "close_roof", "stop_motion"}

DomeEntry(op) ==
    CASE op = "open_roof" -> "or_status"
      [] op = "close_roof" -> "cr_status"
      [] OTHER -> "dome_stop"

dome_frame == <<module, timed, calls, lock, abort_event, offset_ra,
                offset_dec, driver, focus_offset, Position, FocMove, loc,
                elapsed, hist, session, extra>>

DomeCall(t) ==
    /\ module = "dome"
    /\ pc[t] = "idle"
    /\ calls < MaxCalls
    /\ \E op \in DomeCalls :
        /\ call' = [call EXCEPT ![t] = [op |-> op, a |-> 0, b |-> 0]]
        /\ pc' = [pc EXCEPT ![t] = DomeEntry(op)]
    /\ calls' = calls + 1
    /\ result' = [result EXCEPT ![t] = "none"]
    /\ UNCHANGED <<env, shared, driver, loc, elapsed, hist>>

DomeStatus(t, here, status, next) ==
    /\ pc[t] = here
    /\ ChangeMotionStatus(status)
    /\ Goto(t, next)
    /\ UNCHANGED <<dome_frame, Shutter, call, result>>

DomeReturn(t, here, status) ==
    /\ pc[t] = here
    /\ ChangeMotionStatus(status)
    /\ Goto(t, "idle")
    /\ result' = [result EXCEPT ![t] = "returned"]
    /\ call' = [call EXCEPT ![t] = NoCall]
    /\ UNCHANGED <<dome_frame, Shutter>>

DomeShutter(t, here, cmd, next) ==
    /\ pc[t] = here
    /\ Shutter' = cmd
    /\ Goto(t, next)
    /\ UNCHANGED <<dome_frame, motion_status, call, result>>

\* open_roof
OpenRoofStatus(t) == DomeStatus(t, "or_status", "INITIALIZING", "or_open")
OpenRoofShutter(t) == DomeShutter(t, "or_open", "OpenShutter", "or_final")
OpenRoofFinal(t) == DomeReturn(t, "or_final", "IDLE")

\* close_roof
CloseRoofStatus(t) == DomeStatus(t, "cr_status", "PARKING", "cr_close")
CloseRoofShutter(t) == DomeShutter(t, "cr_close", "CloseShutter", "cr_final")
CloseRoofFinal(t) == DomeReturn(t, "cr_final", "PARKED")

\* AscomDome.stop_motion: not supported, pass
DomeStopMotion(t) ==
    /\ pc[t] = "dome_stop"
    /\ Goto(t, "idle")
    /\ result' = [result EXCEPT ![t] = "returned"]
    /\ call' = [call EXCEPT ![t] = NoCall]
    /\ UNCHANGED <<dome_frame, motion_status, Shutter>>

DomeStep(t) ==
    \/ DomeCall(t)
    \/ OpenRoofStatus(t)
    \/ OpenRoofShutter(t)
    \/ OpenRoofFinal(t)
    \/ CloseRoofStatus(t)
    \/ CloseRoofShutter(t)
    \/ CloseRoofFinal(t)
    \/ DomeStopMotion(t)

TelescopeStep(t) ==
    \/ TelescopeCall(t)
    \/ MoveAltAzReset(t)
    \/ MoveAltAzStatus(t)
    \/ MoveAltAzTrack(t)
    \/ MoveAltAzSlew(t)
    \/ MoveAltAzPoll(t)
    \/ MoveAltAzFinish(t)
    \/ MoveAltAzFinal(t)
    \/ MoveRadecReset(t)
    \/ MoveRadecStatus(t)
    \/ MoveRadecTrack(t)
    \/ MoveRadecSlew(t)
    \/ MoveRadecPoll(t)
    \/ MoveRadecFinal(t)
    \/ SetOffsetsStatus(t)
    \/ SetOffsetsGet(t)
    \/ SetOffsetsStore(t)
    \/ SetOffsetsTrack(t)
    \/ SetOffsetsSlew(t)
    \/ SetOffsetsPoll(t)
    \/ SetOffsetsFinal(t)
    \/ StopAbortSlew(t)
    \/ StopTrackingOff(t)

LockStep(t) ==
    \/ LockEnter(t)
    \/ LockWait(t)
    \/ LockTimeout(t)
    \/ LockClear(t)
    \/ LockExit(t)

Next ==
    \/ \E t \in Threads :
          TelescopeStep(t) \/ LockStep(t) \/ FocuserStep(t) \/ DomeStep(t)
    \/ DriverArrive
    \/ FocuserAdvance

Spec == Init /\ [][Next]_vars

\* the telescope alone, with the time its calls spend waiting tracked
InitTimed ==
    /\ module = "telescope"
    /\ timed = TRUE
    /\ Opened
    /\ AtRest
    /\ InitCommon

NextTimed ==
    \/ \E t \in Threads : TelescopeStep(t) \/ LockStep(t)
    \/ DriverArrive

SpecTimed == InitTimed /\ [][NextTimed]_vars

\* ----------------------------------------------------- driver faults
\* the statements of a motion body that call the driver after the status
\* was set to SLEWING; any of them can raise (a COM error)
FaultSteps ==
    {"aa_track", "aa_slew", "aa_poll", "aa_finish", "rd_track", "rd_slew",
     "rd_poll", "off_get", "off_track", "off_slew", "off_poll", "sf_move",
     "sf_poll"}

\* a driver exception that ends the call with the lock still held
DriverFault_held(t) ==
    /\ pc[t] \in FaultSteps
    /\ pc' = [pc EXCEPT ![t] = "idle"]
    /\ result' = [result EXCEPT ![t] = "DriverFault"]
    /\ Return(t)
    /\ UNCHANGED <<env, calls, shared, driver>>

\* The driver raises in the statement thread t is at.  No motion body has a
\* try or an except: the exception leaves `with com_device(...)` and
\* `with LockWithAbort(...)`, which releases the lock, and ends the call.
DriverFault(t) ==
    /\ pc[t] \in FaultSteps
    /\ lock' = IF lock = t THEN NoThread ELSE lock
    /\ pc' = [pc EXCEPT ![t] = "idle"]
    /\ result' = [result EXCEPT ![t] = "DriverFault"]
    /\ Return(t)
    /\ UNCHANGED <<env, calls, abort_event, motion_status, offset_ra,
                   offset_dec, driver>>

\* the telescope and the focuser on a driver that can raise
InitFault ==
    /\ module \in {"telescope", "focuser"}
    /\ timed = FALSE
    /\ Opened
    /\ AtRest
    /\ InitCommon

NextFault ==
    \/ \E t \in Threads :
          TelescopeStep(t) \/ LockStep(t) \/ FocuserStep(t) \/ DriverFault(t)
    \/ DriverArrive
    \/ FocuserAdvance

SpecFault == InitFault /\ [][NextFault]_vars

\* ==================================================== open and close
\* AscomTelescope.open / close and AscomDome.open / close connect to the
\* driver and disconnect from it; AscomFocuser.open only chooses a device.
\* The framework calls them one at a time, before and after the module
\* serves its operations.  They are the operations that call CoInitialize
\* and CoUninitialize by hand; every other operation goes through
\* com_device, whose finally undoes its CoInitialize on every exit.
LifecycleCalls(m) == IF m = "focuser" THEN {"open"} ELSE {"open", "close"}

LifecycleEntry(m, op) ==
    CASE op = "close" -> "cl_coinit"
      [] m = "focuser" -> "fo_open"
      [] OTHER -> "op_coinit"

life_frame == <<module, timed, shared, driver, focus_offset, Position,
                FocMove, Shutter, loc, elapsed, hist, extra>>

LifecycleCall(t) ==
    /\ \A u \in Threads : pc[u] = "idle"
    /\ calls < MaxCalls
    /\ \E op \in LifecycleCalls(module) :
        /\ call' = [call EXCEPT ![t] = [op |-> op, a |-> 0, b |-> 0]]
        /\ pc' = [pc EXCEPT ![t] = LifecycleEntry(module, op)]
    /\ calls' = calls + 1
    /\ result' = [result EXCEPT ![t] = "none"]
    /\ connect_writes' = 0
    /\ UNCHANGED <<life_frame, device, Connected, com_count>>

\* pythoncom.CoInitialize()
CoInitialize(t) == com_count' = [com_count EXCEPT ![t] = @ + 1]

\* pythoncom.CoUninitialize()
CoUninitialize(t) == com_count' = [com_count EXCEPT ![t] = @ - 1]

\* the call of thread t ends with the given outcome
LifecycleReturn(t, outcome) ==
    /\ pc' = [pc EXCEPT ![t] = "idle"]
    /\ result' = [result EXCEPT ![t] = outcome]
    /\ call' = [call EXCEPT ![t] = NoCall]

\* open: pythoncom.CoInitialize()
OpenCoInit(t) ==
    /\ pc[t] = "op_coinit"
    /\ CoInitialize(t)
    /\ Goto(t, "op_choose")
    /\ UNCHANGED <<life_frame, calls, call, result, device, Connected,
                   connect_writes>>

\* open: if not self._device: ... self._device = x.Choose(None)
OpenChoose(t) ==
    /\ pc[t] = "op_choose"
    /\ device' = TRUE
    /\ Goto(t, "op_check")
    /\ UNCHANGED <<life_frame, calls, call, result, Connected,
                   connect_writes, com_count>>

\* open: device = Dispatch(self._device); if device.Connected: ... else:
OpenCheck(t) ==
    /\ pc[t] = "op_check"
    /\ IF Connected THEN Goto(t, "op_fin") ELSE Goto(t, "op_set")
    /\ UNCHANGED <<life_frame, calls, call, result, session>>

\* open: device.Connected = True; the driver connects, or fails to
OpenSet(t) ==
    /\ pc[t] = "op_set"
    /\ \E ok \in BOOLEAN : Connected' = ok
    /\ connect_writes' = connect_writes + 1
    /\ Goto(t, "op_verify")
    /\ UNCHANGED <<life_frame, calls, call, result, device, com_count>>

\* an open that writes Connected again when the driver did not connect
OpenVerify_retry(t) ==
    /\ pc[t] = "op_verify"
    /\ IF Connected THEN Goto(t, "op_fin") ELSE Goto(t, "op_set")
    /\ UNCHANGED <<life_frame, calls, call, result, session>>

\* open: if device.Connected: ... else: raise ValueError(...)
OpenVerify(t) ==
    /\ pc[t] = "op_verify"
    /\ IF Connected
         THEN /\ Goto(t, "op_fin")
              /\ UNCHANGED <<call, result>>
         ELSE LifecycleReturn(t, "ValueError")
    /\ UNCHANGED <<life_frame, calls, session>>

\* open, last statement: the telescope calls pythoncom.CoUninitialize(),
\* the dome calls pythoncom.CoInitialize()
OpenFinish(t) ==
    /\ pc[t] = "op_fin"
    /\ IF module = "dome" THEN CoInitialize(t) ELSE CoUninitialize(t)
    /\ LifecycleReturn(t, "returned")
    /\ UNCHANGED <<life_frame, calls, device, Connected, connect_writes>>

\* AscomFocuser.open: if not self._device: CoInitialize(); choose the
\* device; CoInitialize()
FocuserOpen(t) ==
    /\ pc[t] = "fo_open"
    /\ IF device
         THEN UNCHANGED <<device, com_count>>
         ELSE /\ device' = TRUE
              /\ com_count' = [com_count EXCEPT ![t] = @ + 2]
    /\ LifecycleReturn(t, "returned")
    /\ UNCHANGED <<life_frame, calls, Connected, connect_writes>>

\* close: with com_device(self._device) as device: CoInitialize()
CloseCoInit(t) ==
    /\ pc[t] = "cl_coinit"
    /\ CoInitialize(t)
    /\ Goto(t, "cl_check")
    /\ UNCHANGED <<life_frame, calls, call, result, device, Connected,
                   connect_writes>>

\* close: if device.Connected:
CloseCheck(t) ==
    /\ pc[t] = "cl_check"
    /\ IF Connected THEN Goto(t, "cl_write") ELSE Goto(t, "cl_fin")
    /\ UNCHANGED <<life_frame, calls, call, result, session>>

\* close: device.Connected = False
CloseWrite(t) ==
    /\ pc[t] = "cl_write"
    /\ Connected' = FALSE
    /\ connect_writes' = connect_writes + 1
    /\ Goto(t, "cl_fin")
    /\ UNCHANGED <<life_frame, calls, call, result, device, com_count>>

\* close: the finally of com_device, CoUninitialize()
CloseFinish(t) ==
    /\ pc[t] = "cl_fin"
    /\ CoUninitialize(t)
    /\ LifecycleReturn(t, "returned")
    /\ UNCHANGED <<life_frame, calls, device, Connected, connect_writes>>

LifecycleStep(t) ==
    \/ LifecycleCall(t)
    \/ OpenCoInit(t)
    \/ OpenChoose(t)
    \/ OpenCheck(t)
    \/ OpenSet(t)
    \/ OpenVerify(t)
    \/ OpenFinish(t)
    \/ FocuserOpen(t)
    \/ CloseCoInit(t)
    \/ CloseCheck(t)
    \/ CloseWrite(t)
    \/ CloseFinish(t)

\* a module not yet opened: its device may be configured or left to the
\* chooser, and the driver may be connected already
InitOpen ==
    /\ module \in Modules
    /\ timed = FALSE
    /\ device \in BOOLEAN
    /\ Connected \in BOOLEAN
    /\ AtRest
    /\ InitCommon

NextOpen == \E t \in Threads : LifecycleStep(t)

SpecOpen == InitOpen /\ [][NextOpen]_vars

\* ================================================== read operations
\* get_radec, get_altaz, get_radec_offsets and get_motion_status of the
\* telescope: none is wrapped in LockWithAbort
ReadOps == {"get_radec", "get_altaz", "get_radec_offsets", "get_motion_status"}

\* AscomTelescope.get_motion_status: derived from the driver's flags.  The
\* module never parks the mount through the driver (park slews to Alt/Az),
\* so the driver's AtPark stays false.
AtPark == FALSE

get_motion_status ==
    IF Tracking THEN "TRACKING"
    ELSE IF Slewing THEN "SLEWING"
    ELSE IF AtPark THEN "PARKED"
    ELSE "IDLE"

\* AscomTelescope.get_altaz: the driver's azimuth turned by 180 degrees
get_altaz ==
    LET az == Azimuth + 180
    IN  <<Altitude, IF az > 360 THEN az - 360 ELSE az>>

\* what a read leaves alone besides the value it computes
read_frame == <<module, timed, focus_offset, Position, FocMove, Shutter,
                session, last_target, Azimuth, Altitude>>

ReadCall(t) ==
    /\ module = "telescope"
    /\ pc[t] = "idle"
    /\ calls < MaxCalls
    /\ \E op \in ReadOps :
        call' = [call EXCEPT ![t] = [op |-> op, a |-> 0, b |-> 0]]
    /\ pc' = [pc EXCEPT ![t] = "read"]
    /\ calls' = calls + 1
    /\ result' = [result EXCEPT ![t] = "none"]
    /\ UNCHANGED <<env, shared, driver, loc, elapsed, hist>>

\* a read that takes the motion lock for its body: it waits while another
\* thread holds it
ReadDevice_locked(t) ==
    /\ pc[t] = "read"
    /\ CanAcquire
    /\ Goto(t, "read_ret")
    /\ UNCHANGED <<env, calls, shared, driver, call, loc, result, elapsed,
                   hist>>

\* the body of a read: it reads the driver's properties and the stored
\* offsets; get_radec and get_altaz compute their values from them
ReadDevice(t) ==
    /\ pc[t] = "read"
    /\ loc' = IF call[t].op = "get_radec"
                THEN [loc EXCEPT ![t] = [ra |-> get_radec[1],
                                         dec |-> get_radec[2], focus |-> 0]]
                ELSE loc
    /\ altaz' = IF call[t].op = "get_altaz"
                  THEN [altaz EXCEPT ![t] = get_altaz]
                  ELSE altaz
    /\ Goto(t, "read_ret")
    /\ UNCHANGED <<read_frame, calls, shared, driver, call, result, elapsed,
                   hist>>

\* the read returns its value
ReadReturn(t) ==
    /\ pc[t] = "read_ret"
    /\ pc' = [pc EXCEPT ![t] = "idle"]
    /\ result' = [result EXCEPT ![t] = "returned"]
    /\ altaz' = [altaz EXCEPT ![t] = NoAltAz]
    /\ Return(t)
    /\ UNCHANGED <<read_frame, calls, shared, driver>>

ReadStep(t) ==
    \/ ReadCall(t)
    \/ ReadDevice(t)
    \/ ReadReturn(t)

\* the telescope with readers among its callers
InitRead ==
    /\ module = "telescope"
    /\ timed = FALSE
    /\ Opened
    /\ AtRest
    /\ InitCommon

NextRead ==
    \/ \E t \in Threads : TelescopeStep(t) \/ LockStep(t) \/ ReadStep(t)
    \/ DriverArrive

SpecRead == InitRead /\ [][NextRead]_vars

\* ------------------------------------------- get_altaz over the compass
\* the readings the driver may give: every whole degree of azimuth, and the
\* horizon, the zenith and one altitude between
AzimuthReadings == 0 .. 359
AltitudeReadings == {0, 45, 90}

\* the telescope pointing anywhere, its callers reading
InitAltAz ==
    /\ module = "telescope"
    /\ timed = FALSE
    /\ Opened
    /\ Azimuth \in AzimuthReadings
    /\ Altitude \in AltitudeReadings
    /\ InitCommon

NextAltAz == \E t \in Threads : ReadStep(t)

SpecAltAz == InitAltAz /\ [][NextAltAz]_vars

\* ------------------------------------- concurrent set_focus_offset
\* the focuser with set_focus_offset its only operation called
OffsetCalls == {c \in FocuserCalls : c.op = "set_focus_offset"}

FocuserOffsetCall(t) ==
    /\ module = "focuser"
    /\ pc[t] = "idle"
    /\ calls < MaxFocuserCalls
    /\ \E c \in OffsetCalls :
        /\ call' = [call EXCEPT ![t] = c]
        /\ pc' = [pc EXCEPT ![t] = FocuserEntry(c.op)]
    /\ calls' = calls + 1
    /\ result' = [result EXCEPT ![t] = "none"]
    /\ UNCHANGED <<env, shared, driver, loc, elapsed, hist>>

InitOffsets ==
    /\ module = "focuser"
    /\ timed = FALSE
    /\ Opened
    /\ AtRest
    /\ InitCommon

NextOffsets ==
    \/ \E t \in Threads :
          \/ FocuserOffsetCall(t)
          \/ SetFocusOffsetGet(t)
          \/ SetFocusOffsetStore(t)
          \/ SetFocusOffsetArg(t)
          \/ SetFocusStatus(t)
          \/ SetFocusMove(t)
          \/ SetFocusPoll(t)
          \/ SetFocusAbort(t)
          \/ SetFocusFinal(t)
          \/ LockStep(t)
    \/ FocuserAdvance

SpecOffsets == InitOffsets /\ [][NextOffsets]_vars

\* ------------------------------- offsets after an absolute slew
\* Sequential use of the telescope: one call at a time, a move_radec to a
\* target T or, once there is one, a set_radec_offsets whose RA offset is
\* scaled by 1 / cos(dec) = 1 (RA offset 0, or T on the equator and the
\* declination left alone).
UnitFactor(c) == c.a = 0 \/ (last_target.dec = 0 /\ c.b = 0)

RepeatCalls ==
    {c \in TelescopeCalls : c.op = "move_radec"}
    \cup {c \in TelescopeCalls :
            c.op = "set_radec_offsets" /\ last_target.set /\ UnitFactor(c)}

RepeatCall(t) ==
    /\ module = "telescope"
    /\ \A u \in Threads : pc[u] = "idle"
    /\ calls < MaxCalls
    /\ \E c \in RepeatCalls :
        /\ call' = [call EXCEPT ![t] = c]
        /\ pc' = [pc EXCEPT ![t] = Entry(c.op)]
        /\ last_target' =
              IF c.op = "move_radec"
                THEN [set |-> TRUE, ra |-> c.a, dec |-> c.b, offsets |-> 0]
                ELSE [last_target EXCEPT !.offsets = @ + 1]
    /\ calls' = calls + 1
    /\ result' = [result EXCEPT ![t] = "none"]
    /\ UNCHANGED <<module, timed, focus_offset, Position, FocMove, Shutter,
                   session, Azimuth, Altitude, altaz, shared, driver, loc,
                   elapsed, hist>>

InitRepeat ==
    /\ module = "telescope"
    /\ timed = FALSE
    /\ Opened
    /\ AtRest
    /\ InitCommon

NextRepeat ==
    \/ \E t \in Threads :
          \/ RepeatCall(t)
          \/ LockEnter(t)
          \/ LockClear(t)
          \/ LockExit(t)
          \/ MoveRadecReset(t)
          \/ MoveRadecStatus(t)
          \/ MoveRadecTrack(t)
          \/ MoveRadecSlew(t)
          \/ MoveRadecPoll(t)
          \/ MoveRadecFinal(t)
          \/ SetOffsetsStatus(t)
          \/ SetOffsetsGet(t)
          \/ SetOffsetsStore(t)
          \/ SetOffsetsTrack(t)
          \/ SetOffsetsSlew(t)
          \/ SetOffsetsPoll(t)
          \/ SetOffsetsFinal(t)
    \/ DriverArrive

SpecRepeat == InitRepeat /\ [][NextRepeat]_vars

\* ------------------------------------ the focuser in sequential use
\* one call at a time, set_focus or set_focus_offset
SeqFocuserCalls == {c \in FocuserCalls : c.op # "stop_motion"}

FocuserSeqCall(t) ==
    /\ module = "focuser"
    /\ \A u \in Threads : pc[u] = "idle"
    /\ calls < MaxFocuserCalls
    /\ \E c \in SeqFocuserCalls :
        /\ call' = [call EXCEPT ![t] = c]
        /\ pc' = [pc EXCEPT ![t] = FocuserEntry(c.op)]
    /\ calls' = calls + 1
    /\ result' = [result EXCEPT ![t] = "none"]
    /\ UNCHANGED <<env, shared, driver, loc, elapsed, hist>>

InitFocusSeq ==
    /\ module = "focuser"
    /\ timed = FALSE
    /\ Opened
    /\ AtRest
    /\ InitCommon

NextFocusSeq ==
    \/ \E t \in Threads :
          \/ FocuserSeqCall(t)
          \/ SetFocusArg(t)
          \/ SetFocusOffsetGet(t)
          \/ SetFocusOffsetStore(t)
          \/ SetFocusOffsetArg(t)
          \/ LockEnter(t)
          \/ LockClear(t)
          \/ SetFocusStatus(t)
          \/ SetFocusMove(t)
          \/ SetFocusPoll(t)
          \/ SetFocusAbort(t)
          \/ SetFocusFinal(t)
          \/ LockExit(t)
    \/ FocuserAdvance

SpecFocusSeq == InitFocusSeq /\ [][NextFocusSeq]_vars

\* ============================================================ claims

\* a call is in its motion body: it has issued its move command to the
\* driver and has not left its poll loop
InMotionBody(t) ==
    pc[t] \in {"aa_poll", "rd_poll", "off_poll", "sf_poll", "sf_abort"}

MotionOps ==
    {"init", "park", "move_radec", "set_radec_offsets", "set_focus",
     "set_focus_offset"}

\* C1: for one telescope, and for one focuser, at most one call at a time
\* is inside its motion body, under every interleaving of init, park,
\* set_radec_offsets, set_focus and set_focus_offset.
C1_MutualExclusion ==
    \A t, u \in Threads :
        (t # u /\ InMotionBody(t)) => ~InMotionBody(u)

\* a call is polling its move while the other thread's call is kept out
C1_Witness ==
    \E t, u \in Threads :
        /\ t # u
        /\ InMotionBody(t)
        /\ lock = t
        /\ pc[u] = "wait"
        /\ call[u].op \in MotionOps

AttemptKeeps ==
    UNCHANGED <<lock, motion_status, offset_ra, offset_dec, driver,
                focus_offset, Position, FocMove, Shutter>>

C3_StopEndsIdle ==
    \A t \in Threads :
        (module = "telescope" /\ aborted[t] /\ pc[t] = "exit")
            => motion_status = "IDLE"

AbsoluteSlewOps == {"init", "park", "move_radec"}

\* the steps of _move_altaz and _move_radec after the offsets were reset,
\* up to the return of the call
AfterReset ==
    {"aa_status", "aa_track", "aa_slew", "aa_poll", "aa_finish", "aa_final",
     "rd_status", "rd_track", "rd_slew", "rd_poll", "rd_final", "exit"}

\* C4: from the reset at the start of _move_radec or _move_altaz until the
\* call returns, get_radec_offsets returns (0, 0).
C4_SlewResetsOffsets ==
    \A t \in Threads :
        (call[t].op \in AbsoluteSlewOps /\ pc[t] \in AfterReset)
            => get_radec_offsets = <<0, 0>>

\* an absolute slew is under way from a position only an offset reaches
\* (declination -60), and the stored offset reads (0, 0)
C4_Witness ==
    \E t \in Threads :
        /\ call[t].op = "move_radec"
        /\ pc[t] = "rd_poll"
        /\ Declination = -60
        /\ get_radec_offsets = <<0, 0>>

\* the deadline the timeout decorator of an operation states
Deadline(op) ==
    IF op = "set_radec_offsets" THEN OffsetTimeoutMs ELSE MoveTimeoutMs

\* C5: once a call has waited longer than its deadline it is no longer in
\* its poll loop and the motion status is not SLEWING.
C5_TimeoutEnds ==
    \A t \in Threads :
        elapsed[t] > Deadline(call[t].op)
            => (pc[t] \notin PollSteps /\ motion_status # "SLEWING")

\* a set_radec_offsets call has left its poll loop and no step of
\* stop_motion ran while it was in flight
OffsetsCompleted(t) ==
    /\ call[t].op = "set_radec_offsets"
    /\ pc[t] = "exit"
    /\ ~stopped[t]

C7_OffsetsKeepTracking ==
    \A t \in Threads :
        call[t].op = "set_radec_offsets" =>
            /\ pc[t] \in {"off_get", "off_store", "off_track", "off_slew",
                          "off_poll", "off_final"}
                  => motion_status = "SLEWING"
            /\ pc[t] \in {"off_track", "off_slew", "off_poll", "off_final",
                          "exit"}
                  => get_radec_offsets = <<call[t].a, call[t].b>>
            /\ pc[t] = "exit" => motion_status = "TRACKING"
            /\ (pc[t] = "exit" /\ ~stopped[t]) => Tracking

\* a set_radec_offsets call made while TRACKING has completed with a
\* non-zero offset
C7_Witness ==
    \E t \in Threads :
        /\ OffsetsCompleted(t)
        /\ status_before[t] = "TRACKING"
        /\ get_radec_offsets # <<0, 0>>
        /\ motion_status = "TRACKING"

\* the edges of the motion state machine
StatusEdges ==
    ({"IDLE", "TRACKING", "POSITIONED"} \X {"PARKING"})
    \cup {<<"PARKING", "PARKED">>}
    \cup ({"IDLE", "PARKED"} \X {"INITIALIZING"})
    \cup {<<"INITIALIZING", "IDLE">>}
    \cup ({"IDLE", "TRACKING", "POSITIONED"} \X {"SLEWING"})
    \cup ({"SLEWING"} \X {"TRACKING", "POSITIONED"})

\* C8: every change of the motion status by the telescope and by the dome
\* follows an edge of the state machine.
C8_StatusFollowsEdges ==
    [][(module \in {"telescope", "dome"} /\ motion_status' # motion_status)
          => <<motion_status, motion_status'>> \in StatusEdges]_vars

\* thread t issues a slew command in this step
IssuesSlew(t) ==
    pc[t] \in {"aa_slew", "rd_slew", "off_slew"} /\ pc'[t] # pc[t]

\* C9: once a stop_motion has run and returned while a motion call held the
\* lock, that call issues no further slew command and does not switch the
\* driver's Tracking flag back on.
C9_StopStaysHalted ==
    [][\A t \in Threads :
        (module = "telescope" /\ stop_returned[t])
            => (~IssuesSlew(t) /\ ~(pc'[t] # pc[t] /\ ~Tracking /\ Tracking'))
      ]_vars

\* thread t returns from stop_motion in this step
StopReturns(t) ==
    call[t].op = "stop_motion" /\ pc[t] # "idle" /\ pc'[t] = "idle"

\* C10: when stop_motion of the telescope or the focuser returns while a
\* motion call is in its poll loop, the abort signal is set for that call.
C10_StopSetsAbort ==
    [][\A t, u \in Threads :
        (module \in {"telescope", "focuser"} /\ StopReturns(t)
           /\ lock = u /\ InMotionBody(u))
            => abort_event'
      ]_vars

\* C11: an init of the telescope that ran to its end leaves the motion
\* status IDLE (and with it a second init in a row leaves the status the
\* first one left).
C11_InitEndsIdle ==
    \A t \in Threads :
        (module = "telescope" /\ call[t].op = "init" /\ pc[t] = "exit")
            => motion_status = "IDLE"

\* C12: a set_radec_offsets call that found the status PARKED is rejected
\* before it touches the driver: it never gets as far as the Tracking write
\* and the slew command, and the motion status stays PARKED.
C12_ParkedRejectsOffsets ==
    \A t \in Threads :
        (call[t].op = "set_radec_offsets" /\ status_before[t] = "PARKED")
            => /\ motion_status = "PARKED"
               /\ pc[t] \notin {"off_slew", "off_poll", "off_final", "exit"}

\* the move command of a motion body and the reads of its poll loop
SlewOrPollSteps ==
    {"aa_slew", "aa_poll", "rd_slew", "rd_poll", "off_slew", "off_poll",
     "sf_move", "sf_poll"}

\* C13: when the driver raises at the move command or in the poll loop of a
\* motion body, after the status was set to SLEWING, the failed call leaves
\* the motion status ERROR.
C13_FaultSetsError ==
    [][\A t \in Threads :
        (pc[t] \in SlewOrPollSteps /\ result'[t] = "DriverFault")
            => motion_status' = "ERROR"
      ]_vars

\* thread t takes a step of its call
Moves(t) == pc'[t] # pc[t]

\* C14: open of the telescope and of the dome writes nothing to Connected
\* and succeeds when the driver already reports Connected; otherwise it
\* writes Connected = True exactly once and reads it back, succeeding when
\* the driver then reports Connected and failing with an error, without a
\* second write, when it does not.  close writes Connected = False only
\* when the driver reports Connected, and writes nothing otherwise.
C14_ConnectOnceVerified ==
    [][\A t \in Threads :
        /\ (pc[t] = "op_check" /\ Connected /\ Moves(t))
              => (/\ pc'[t] = "op_fin"
                  /\ connect_writes' = 0
                  /\ UNCHANGED Connected)
        /\ (call[t].op = "open" /\ Moves(t)
              /\ <<Connected, connect_writes>>' # <<Connected, connect_writes>>)
              => (pc[t] = "op_set" /\ ~Connected /\ connect_writes' = 1)
        /\ (pc[t] = "op_verify" /\ Connected /\ Moves(t))
              => pc'[t] = "op_fin"
        /\ (pc[t] = "op_verify" /\ ~Connected /\ Moves(t))
              => (/\ pc'[t] = "idle"
                  /\ result'[t] = "ValueError"
                  /\ connect_writes' = 1
                  /\ UNCHANGED Connected)
        /\ (pc[t] = "op_fin" /\ Moves(t))
              => (result'[t] = "returned" /\ Connected' /\ connect_writes' <= 1)
        /\ (call[t].op = "close" /\ Moves(t)
              /\ <<Connected, connect_writes>>' # <<Connected, connect_writes>>)
              => (/\ pc[t] = "cl_write"
                  /\ Connected
                  /\ ~Connected'
                  /\ connect_writes' = 1)
        /\ (pc[t] = "cl_check" /\ ~Connected /\ Moves(t))
              => (pc'[t] = "cl_fin" /\ connect_writes' = 0)
      ]_vars

\* an open wrote Connected once, the driver did not connect, and the open
\* failed
C14_Witness ==
    \E t \in Threads :
        /\ result[t] = "ValueError"
        /\ pc[t] = "idle"
        /\ connect_writes = 1
        /\ ~Connected

\* C15: a thread that is in no call holds no COM initialisation: every
\* operation, open included, has undone each CoInitialize it made by the
\* time it returns or raises.
C15_ComBalanced ==
    \A t \in Threads : pc[t] = "idle" => com_count[t] = 0

\* thread t is in a read operation
Reading(t) == pc[t] \in {"read", "read_ret"}

\* C16: a read operation of the telescope can always take its next step,
\* whoever holds the motion lock, and no step of it changes the lock, the
\* abort signal, the motion status, the stored offsets or the driver.
C16_ReadsLockFree ==
    /\ [](\A t \in Threads :
            Reading(t) => ENABLED (ReadDevice(t) \/ ReadReturn(t)))
    /\ [][\A t \in Threads :
            (Reading(t) /\ Moves(t)) => UNCHANGED <<shared, driver>>]_vars

\* a read has read the driver and is about to return while the other
\* thread holds the lock in the poll loop of a slew
C16_Witness ==
    \E t, u \in Threads :
        /\ pc[t] = "read_ret"
        /\ lock = u
        /\ pc[u] \in PollSteps
        /\ Slewing

\* C17: no call stays in its poll loop at a poll that finds the abort
\* signal set: it leaves the loop at that poll, whatever the driver reports.
C17_AbortLeavesLoop ==
    \A t \in Threads : ~overstayed[t]

\* C18: when the poll loop of the focuser's _set_focus ends because the
\* abort signal is set, the call leaves the motion status IDLE, not SLEWING
\* (and returns an Aborted outcome).
C18_AbortEndsIdle ==
    [][\A t \in Threads :
        (module = "focuser" /\ pc[t] = "sf_abort" /\ abort_event /\ Moves(t))
            => motion_status' = "IDLE"
      ]_vars

\* C19: while a tracked slew is in progress (the driver's Slewing and
\* Tracking both true), what a get_motion_status call is about to return is
\* SLEWING, the status the controller last set, and not TRACKING.
C19_StatusIsLastSet ==
    \A t \in Threads :
        (call[t].op = "get_motion_status" /\ pc[t] = "read"
           /\ Tracking /\ Slewing)
            => (get_motion_status = "SLEWING"
                  /\ get_motion_status = motion_status)

\* every set_focus_offset call made has returned normally and the driver
\* has finished the move last commanded
OffsetCallsDone ==
    /\ calls > 0
    /\ \A t \in Threads : pc[t] = "idle" /\ result[t] \in {"none", "returned"}
    /\ ~FocMove.moving

\* C20: once concurrent set_focus_offset calls, with no set_focus among
\* them, have all finished, get_focus returns the offset-free focus it
\* returned before the calls (0) and the device position is that focus plus
\* the stored offset.
C20_OffsetsSerialized ==
    OffsetCallsDone =>
        /\ get_focus = 0
        /\ Position = FocusToSteps(get_focus + focus_offset)

\* C21: the motion lock is held only by a call inside its LockWithAbort
\* block: once init, park, move_radec, set_radec_offsets or _set_focus has
\* ended, by return, by abort or by a driver exception, the lock is free,
\* and whenever no call is inside its block a new call can acquire it.
C21_LockReleased ==
    /\ \A t \in Threads : lock = t => pc[t] \in InBody
    /\ (\A t \in Threads : pc[t] \notin InBody) => CanAcquire

\* a call ended by a driver exception and the other thread's call has
\* acquired the lock since
C21_Witness ==
    \E t, u \in Threads :
        /\ t # u
        /\ result[t] = "DriverFault"
        /\ pc[t] = "idle"
        /\ lock = u
        /\ pc[u] \in InBody

\* the last absolute target T
AbsTarget == <<last_target.ra, last_target.dec>>

\* C22: in a sequence of completed set_radec_offsets calls after one
\* absolute slew to T, with the 1 / cos(dec) factor 1, the target each call
\* commands to the driver is T plus that call's offset only, the driver
\* ends there, and get_radec returns T after every completed call.
C22_OffsetsDoNotAccumulate ==
    /\ \A t \in Threads :
        (call[t].op = "set_radec_offsets" /\ last_target.set) =>
            LET want == <<AbsTarget[1] + call[t].a, AbsTarget[2] + call[t].b>>
            IN  /\ (pc[t] = "off_poll" /\ Slewing)
                      => target = [kind |-> "radec",
                                   ra |-> DegToHours(want[1]),
                                   dec |-> want[2]]
                /\ pc[t] = "exit"
                      => /\ HoursToDegrees(RightAscension) = want[1]
                         /\ Declination = want[2]
                         /\ get_radec = AbsTarget
    /\ (last_target.set /\ \A t \in Threads : pc[t] = "idle")
          => get_radec = AbsTarget

\* the second set_radec_offsets call after an absolute slew has completed
\* with a non-zero offset
C22_Witness ==
    \E t \in Threads :
        /\ call[t].op = "set_radec_offsets"
        /\ pc[t] = "exit"
        /\ last_target.offsets = 2
        /\ <<call[t].a, call[t].b>> # <<0, 0>>

\* the focus get_focus returned before the set_focus_offset call of thread
\* t, once the call has added its offset to it
FocusBefore(t) == loc[t].focus - call[t].a

\* C23 as stated: after a completed set_focus(f), get_focus returns f
\* within the 10-step tolerance; after a completed set_focus_offset(o2),
\* get_focus_offset returns o2 and get_focus returns the value it returned
\* before the call.
C23_RoundTrip ==
    \A t \in Threads :
        pc[t] = "exit" =>
            /\ call[t].op = "set_focus"
                  => Abs(get_focus - call[t].a) <= StepsToFocus(MoveTolerance)
            /\ call[t].op = "set_focus_offset"
                  => /\ get_focus_offset = call[t].a
                     /\ get_focus = FocusBefore(t)

\* the tolerance of the move plus what int() cuts off (less than one step)
RoundTripTolerance == StepsToFocus(MoveTolerance) + 1

\* the driver was commanded to position p and is there or on its way
MovedTo(p) == IF FocMove.moving THEN FocMove.to = p ELSE Position = p

\* C23 as amended: a call returns once the device is within 10 steps of the
\* commanded position, which int() has cut to whole steps.  After a
\* completed set_focus(f) the device was commanded to int(f + o) and
\* get_focus returns f within the tolerance plus less than one step; after
\* a completed set_focus_offset(o2), get_focus_offset returns o2 and
\* get_focus returns its value from before the call within the same margin
\* (exactly that value only once the device has arrived and no step was
\* cut).  set_focus leaves the stored offset as it found it.
C23_RoundTripWithinTolerance ==
    \A t \in Threads :
        /\ (call[t].op = "set_focus" /\ pc[t] \notin {"idle", "sfc_arg"})
              => focus_offset = loc[t].focus - call[t].a
        /\ (call[t].op = "set_focus" /\ pc[t] = "exit")
              => /\ MovedTo(FocusToSteps(call[t].a + focus_offset))
                 /\ Abs(get_focus - call[t].a) <= RoundTripTolerance
        /\ (call[t].op = "set_focus_offset" /\ pc[t] = "exit")
              => /\ get_focus_offset = call[t].a
                 /\ MovedTo(FocusToSteps(FocusBefore(t) + focus_offset))
                 /\ Abs(get_focus - FocusBefore(t)) <= RoundTripTolerance

\* a set_focus with a non-zero stored offset has returned while the device
\* is still short of the commanded position
C23_Witness ==
    \E t \in Threads :
        /\ call[t].op = "set_focus"
        /\ pc[t] = "exit"
        /\ focus_offset # 0
        /\ FocMove.moving

\* C24: dome, concurrent open_roof and close_roof: once all calls have
\* returned, the motion status agrees with the last shutter command the
\* driver received, PARKED after CloseShutter and IDLE after OpenShutter.
C24_StatusAgreesWithShutter ==
    (/\ module = "dome"
     /\ \A t \in Threads : pc[t] = "idle")
        => /\ Shutter = "CloseShutter" => motion_status = "PARKED"
           /\ Shutter = "OpenShutter" => motion_status = "IDLE"

\* C25: for every driver azimuth reading in [0, 360), whole degrees,
\* get_altaz returns an azimuth in [0, 360) equal to (reading + 180) mod 360
\* and the driver's altitude as it is.
C25_AzimuthTurned ==
    \A t \in Threads :
        (pc[t] = "read_ret" /\ call[t].op = "get_altaz")
            => /\ altaz[t][1] = Altitude
               /\ altaz[t][2] = (Azimuth + 180) % 360
               /\ altaz[t][2] \in 0 .. 359
====
